---- MODULE Spec2Model ----
(***************************************************************************)
(* Finsense chat client (src/static/chatbot_script.js, class ChatbotUI).   *)
(* One page load of the widget: the object's fields, the DOM controls the  *)
(* code reads and writes, the requests it has in flight, and every async    *)
(* function as a flow that advances from one await to the next.  The       *)
(* backend, the Auth0 SDK and the user are the environment.                *)
(***************************************************************************)
EXTENDS Integers, Sequences, FiniteSets, Bags, TLC

\* ---------------------------------------------------------------- bounds
MaxTurns == 2
MaxLogins == 1
MaxSections == 1
MaxHistory == 1
MaxInFlight == 2
MaxWords == 3
MaxLines == 3
MaxResultSections == 3
MaxReplay == 2
MaxInput == 2

\* ---------------------------------------------------------------- values
Null == "null"
Undef == "undefined"
\* progressMessageId before the first research: null, which names no element
\* (the indicators are numbered from 1)
NoProgressId == 0
SessionIds == {"s1", "s2"}
Tokens == {"t1"}
BackendStates == {"collecting_preferences", "ready_to_research"}
ErrorClasses == {"closed", "blocked", "other"}
\* the words of an error message that the login code tells apart, and any other
Words == {"Popup", "popup", "closed", "failed"}

VARIABLES
    cfg,                \* window.FINSENSE_* globals and the page's DOM, fixed at load
    sessionId, currentState, progressMessageId, auth0Client, accessToken,
    userId, isAuthenticated, isGuest, authEnabled,
    dom,                \* the controls: input, buttons, modal, status texts
    messagesArea,       \* the messages the latest rendering step appended, and its flow
    fetched,            \* the requests the latest fetching step handed to fetch
    progressEls,        \* progress indicators in the DOM: id -> index of status text
    initPc,             \* position of initialize()
    welcomes,           \* loadWelcomeMessage calls in flight: bag of [src, sid]
    sends,              \* handleSendMessage flows, by turn number
    login,              \* position of loginWithPopup() and number of attempts
    timers,             \* pending setTimeout(..., 800) callbacks of loginWithPopup
    histories,          \* loadChatHistory calls in flight
    unhandled,          \* a promise rejection reached no handler
    ghRaised,           \* getHeaders has thrown 'Please log in first.'
    logoutCalled,       \* the latest step called auth0Client.logout()
    welcomeCalls,       \* loadWelcomeMessage calls that reached fetch
    handled,            \* the chat response the latest step handled: its state field
    replayed,           \* the history body the latest step replayed: its roles
    sendCall,           \* the input value the latest step's handleSendMessage read
    fn                  \* a pure function run on its own: its argument and result

vars == <<cfg, sessionId, currentState, progressMessageId, auth0Client, accessToken,
          userId, isAuthenticated, isGuest, authEnabled, dom, messagesArea,
          fetched, progressEls, initPc, welcomes, sends, login, timers,
          histories, unhandled, ghRaised, logoutCalled, welcomeCalls, handled,
          replayed, sendCall, fn>>

fieldVars == <<sessionId, currentState, progressMessageId, auth0Client, accessToken,
               userId, isAuthenticated, isGuest, authEnabled>>

\* ------------------------------------------------------- pure functions
\* hasAuthConfig answering true whatever is configured: what C21 rules out
hasAuthConfigAlways(c) == TRUE

\* cfg.auth0: domain, clientId and audience of FINSENSE_AUTH0 are all non-empty
hasAuthConfig(c) == IF c.flask THEN TRUE ELSE c.auth0

Bearer(t) == <<"Bearer", t>>

\* buildAuthHeaders without its Authorization line
buildAuthHeadersNoBearer(token) ==
    [ContentType |-> "application/json", Authorization |-> Null]

buildAuthHeaders(token) ==
    [ContentType |-> "application/json",
     Authorization |-> IF token # Null THEN Bearer(token) ELSE Null]

\* getHeaders without the guest exemption: what C10 rules out
getHeadersNoGuest(flask, authEn, token, guest) ==
    IF flask
    THEN [raised |-> FALSE, ContentType |-> "application/json", Authorization |-> Null]
    ELSE IF authEn /\ token = Null
         THEN [raised |-> TRUE, ContentType |-> Null, Authorization |-> Null]
         ELSE [raised |-> FALSE,
               ContentType |-> buildAuthHeaders(token).ContentType,
               Authorization |-> buildAuthHeaders(token).Authorization]

getHeaders(flask, authEn, token, guest) ==
    IF flask
    THEN [raised |-> FALSE, ContentType |-> "application/json", Authorization |-> Null]
    ELSE IF authEn /\ token = Null /\ ~guest
         THEN [raised |-> TRUE, ContentType |-> Null, Authorization |-> Null]
         ELSE [raised |-> FALSE,
               ContentType |-> buildAuthHeaders(token).ContentType,
               Authorization |-> buildAuthHeaders(token).Authorization]

setInputEnabled(d, enabled) == [d EXCEPT !.inputEnabled = enabled]

updateAuthUI(d, authEn, isAuth, guest) ==
    IF ~authEn THEN d
    ELSE [d EXCEPT !.loginButton = ~isAuth /\ ~guest,
                   !.logoutButton = isAuth,
                   !.authStatus = IF isAuth THEN "Signed in"
                                  ELSE IF guest THEN "Guest mode" ELSE "Signed out",
                   !.inputEnabled = isAuth \/ guest]

closeLoginModal(d) == [d EXCEPT !.loginModal = FALSE, !.loginStatus = ""]

\* String.prototype.includes on a text kept as its sequence of words
includes(text, pat) ==
    \E k \in 1..(Len(text) - Len(pat) + 1) : SubSeq(text, k, k + Len(pat) - 1) = pat

\* the errors a login can fail with: no message at all, or a message made of
\* up to MaxWords words
LoginErrors ==
    {[hasMessage |-> FALSE, message |-> <<>>]} \cup
    {[hasMessage |-> TRUE, message |-> m] :
        m \in UNION {[1..n -> Words] : n \in 0..MaxWords}}

\* the catch of loginWithPopup with the two tests in the other order
classifyPopupFirst(error) ==
    IF error.hasMessage /\ includes(error.message, <<"popup">>) THEN "blocked"
    ELSE IF error.hasMessage /\ includes(error.message, <<"Popup", "closed">>)
    THEN "closed"
    ELSE "other"

\* the catch of loginWithPopup: error.message?.includes(...) is undefined,
\* hence false, for an error without message
classify(error) ==
    IF error.hasMessage /\ includes(error.message, <<"Popup", "closed">>)
    THEN "closed"
    ELSE IF error.hasMessage /\ includes(error.message, <<"popup">>) THEN "blocked"
    ELSE "other"

\* what the catch makes of the errors that can be thrown
ThrownClasses == {classify(e) : e \in LoginErrors}

loginErrorStatus(errClass) ==
    IF errClass = "closed" THEN "Login cancelled"
    ELSE IF errClass = "blocked" THEN "Popup blocked. Please allow popups and try again."
    ELSE "Login failed. Please try again."

\* ------------------------------------------------------- formatMarkdown
\* a text is the sequence of its characters; a word without markup, a '**' and
\* an HTML tag each count as one character
\* the two list markers: the hyphen and the bullet U+2022
Markers == {"-", "bullet"}
Space == {" ", "\n"}
Tags == {"<strong>", "</strong>", "<li>", "</li>", "<ul>", "</ul>", "</p><p>", "<br>",
         "<p>", "</p>"}

Max(S) == CHOOSE x \in S : \A y \in S : y <= x
Min(S) == CHOOSE x \in S : \A y \in S : x <= y

\* the characters of t from index a on
From(t, a) == SubSeq(t, a, Len(t))

\* the last index of the line that starts at index a of t (a - 1 when empty)
LineEnd(t, a) == Max({e \in (a - 1)..Len(t) : \A q \in a..e : t[q] # "\n"})

\* text.replace(/\*\*(.*?)\*\*/g, '<strong>$1</strong>')
RECURSIVE replaceBold(_)
replaceBold(t) ==
    IF t = <<>> THEN <<>>
    ELSE LET s == Tail(t)
             C == {m \in 1..Len(s) : s[m] = "**"}
         IN IF Head(t) = "**" /\ C # {} /\ \A q \in 1..(Min(C) - 1) : s[q] # "\n"
            THEN <<"<strong>">> \o SubSeq(s, 1, Min(C) - 1) \o <<"</strong>">>
                    \o replaceBold(From(s, Min(C) + 1))
            ELSE <<Head(t)>> \o replaceBold(s)

\* text.replace(/^[(bullet)\-]\s+(.+)$/gm, '<li>$1</li>'): at the start of a line a
\* marker, then as much white space as leaves a character of the same line,
\* then the rest of that line
RECURSIVE replaceListItems(_, _)
replaceListItems(t, atLineStart) ==
    IF t = <<>> THEN <<>>
    ELSE LET s == Tail(t)
             P == {p \in 1..(Len(s) - 1) :
                     /\ \A q \in 1..p : s[q] \in Space
                     /\ s[p + 1] # "\n"}
         IN IF atLineStart /\ Head(t) \in Markers /\ P # {}
            THEN LET e == LineEnd(s, Max(P) + 1)
                 IN <<"<li>">> \o SubSeq(s, Max(P) + 1, e) \o <<"</li>">>
                       \o replaceListItems(From(s, e + 1), FALSE)
            ELSE <<Head(t)>> \o replaceListItems(s, Head(t) = "\n")

\* one '<li>.*<\/li>\n?' at the start of s: its length, 0 when there is none
ItemLen(s) ==
    IF s = <<>> \/ Head(s) # "<li>" THEN 0
    ELSE LET M == {m \in 2..LineEnd(s, 1) : s[m] = "</li>"}
         IN IF M = {} THEN 0
            ELSE IF Max(M) < Len(s) /\ s[Max(M) + 1] = "\n" THEN Max(M) + 1
            ELSE Max(M)

\* '(<li>.*<\/li>\n?)+' at the start of s: its length, 0 when there is none
RECURSIVE RunLen(_)
RunLen(s) ==
    IF ItemLen(s) = 0 THEN 0 ELSE ItemLen(s) + RunLen(From(s, ItemLen(s) + 1))

\* the wrapping with the '+' left out: every item gets a list of its own
RECURSIVE wrapEachItem(_)
wrapEachItem(t) ==
    IF t = <<>> THEN <<>>
    ELSE IF ItemLen(t) > 0
    THEN <<"<ul>">> \o SubSeq(t, 1, ItemLen(t)) \o <<"</ul>">>
            \o wrapEachItem(From(t, ItemLen(t) + 1))
    ELSE <<Head(t)>> \o wrapEachItem(Tail(t))

\* text.replace(/(<li>.*<\/li>\n?)+/g, '<ul>$&</ul>')
RECURSIVE wrapLists(_)
wrapLists(t) ==
    IF t = <<>> THEN <<>>
    ELSE IF RunLen(t) > 0
    THEN <<"<ul>">> \o SubSeq(t, 1, RunLen(t)) \o <<"</ul>">>
            \o wrapLists(From(t, RunLen(t) + 1))
    ELSE <<Head(t)>> \o wrapLists(Tail(t))

\* text.replace(/\n\n/g, '</p><p>')
RECURSIVE replaceParagraphs(_)
replaceParagraphs(t) ==
    IF t = <<>> THEN <<>>
    ELSE IF Len(t) >= 2 /\ t[1] = "\n" /\ t[2] = "\n"
    THEN <<"</p><p>">> \o replaceParagraphs(From(t, 3))
    ELSE <<Head(t)>> \o replaceParagraphs(Tail(t))

\* text.replace(/\n/g, '<br>')
replaceBreaks(t) == [k \in DOMAIN t |-> IF t[k] = "\n" THEN "<br>" ELSE t[k]]

formatMarkdown(text) ==
    LET html == replaceBreaks(replaceParagraphs(wrapLists(
                    replaceListItems(replaceBold(text), TRUE))))
    IN IF html # <<>> /\ Head(html) \in Tags THEN html
       ELSE <<"<p>">> \o html \o <<"</p>">>

\* String.prototype.trim on a text kept as its sequence of characters
RECURSIVE trimStart(_)
trimStart(s) == IF s # <<>> /\ Head(s) \in Space THEN trimStart(Tail(s)) ELSE s

RECURSIVE trimEnd(_)
trimEnd(s) ==
    IF s # <<>> /\ s[Len(s)] \in Space THEN trimEnd(SubSeq(s, 1, Len(s) - 1)) ELSE s

\* trim that returns its text as it is: what C29 rules out
trimNothing(s) == s

trim(s) == trimEnd(trimStart(s))

\* what the user can have typed: up to MaxInput characters, blank or not
InputValues == UNION {[1..n -> {" ", "a"}] : n \in 0..MaxInput}

\* a message that is not blank
SomeText == {<<"a">>}

\* the message field of a request whose body has none
NoMessage == <<"n/a">>

\* fetch(url, {headers, body}): the request as handed to the network
\* (guest and token record isGuest and accessToken at the time of the call)
Request(ep, sid, msg, hdr, guest, token) ==
    [ep |-> ep, session_id |-> sid, message |-> msg,
     Authorization |-> hdr.Authorization, guest |-> guest, token |-> token]

\* addMessage / addBotMessage / displayResults append to messagesArea; the area
\* is kept as its tail: what the latest appending step appended, and for which
\* flow (a page flow by name, or a turn by number)
Rendered(by, kinds) == [by |-> by, turn |-> 0, kinds |-> kinds]

NoRender == Rendered("none", <<>>)

\* the chat response a step handled, as far as currentState can depend on it:
\* the body's state field, or that the call failed before a body was read
NoResponse == "none"

Handled(r) == IF r.kind = "json" THEN r.state ELSE "failed"

\* loadWelcomeMessage calls are counted where they hand their request to fetch
CountWelcome ==
    welcomeCalls' = welcomeCalls + BagCardinality(welcomes') - BagCardinality(welcomes)

\* sendCall in a step that does not run handleSendMessage
NotCalled == [called |-> FALSE, value |-> <<>>]

\* fn while the page runs: no function is run on its own
NoCall == [arg |-> <<>>, result |-> <<>>, returned |-> FALSE]

\* a step that appends no message, hands nothing to fetch, throws nothing past
\* its handlers, handles no response and does not log out
Silent ==
    /\ messagesArea' = NoRender
    /\ fetched' = {}
    /\ unhandled' = FALSE
    /\ handled' = NoResponse
    /\ replayed' = <<>>
    /\ sendCall' = NotCalled
    /\ logoutCalled' = FALSE

RenderedTurn(i, kinds) == [by |-> "turn", turn |-> i, kinds |-> kinds]

\* --------------------------------------------------------- environment
\* the backend keeps sessions: a known id is answered with that id, a request
\* without one (null, or undefined which JSON.stringify drops) opens a session
BackendSid(reqSid) == IF reqSid \in SessionIds THEN {reqSid} ELSE SessionIds

FailedResponses ==
    {[kind |-> k, session_id |-> Null, state |-> Null, bot |-> FALSE] :
        k \in {"neterr", "httperr", "notjson"}}

\* a JSON body is complete, or lacks bot_message, or is the empty object
ChatResponses(reqSid) ==
    FailedResponses \cup
    {[kind |-> "json", session_id |-> s, state |-> st, bot |-> b] :
        s \in BackendSid(reqSid), st \in BackendStates, b \in BOOLEAN} \cup
    {[kind |-> "json", session_id |-> Undef, state |-> Undef, bot |-> FALSE]}

\* a research body that parsed: no results member, results without html, or html
ResearchBodies == {"noresults", "nohtml", "html"}

\* the page's globals and DOM; settings that no code path reads in a mode are
\* fixed: FINSENSE_USER without flask mode, AUTH0_CONFIG in flask mode, the SDK
\* when initializeAuth returns before testing it
Configs ==
    {c \in [flask : BOOLEAN, flaskUser : BOOLEAN, auth0 : BOOLEAN,
            sdk : BOOLEAN, authDom : BOOLEAN] :
        /\ (~c.flask => ~c.flaskUser /\ c.authDom)
        /\ (c.flask => ~c.auth0)
        /\ (c.flaskUser \/ ~hasAuthConfig(c) => ~c.sdk)}

IdleFlow == [pc |-> "idle", sid |-> Null, nsec |-> 0, appended |-> 0,
             content |-> <<>>, revealed |-> {}]

DoneFlow == [IdleFlow EXCEPT !.pc = "done"]

\* ----------------------------------------------------------------- Init
PageInit ==
    /\ cfg \in Configs
    /\ sessionId = Null
    /\ currentState = "initial"
    /\ progressMessageId = NoProgressId
    /\ auth0Client = FALSE
    /\ accessToken = Null
    /\ userId = Null
    /\ isAuthenticated = FALSE
    /\ isGuest = FALSE
    /\ authEnabled = hasAuthConfig(cfg)
    /\ dom = [inputEnabled |-> FALSE, loginButton |-> cfg.authDom,
              logoutButton |-> cfg.authDom, authStatus |-> "", loginModal |-> FALSE,
              loginStatus |-> "", popupLoginBtn |-> TRUE]
    /\ messagesArea = NoRender
    /\ fetched = {}
    /\ progressEls = <<>>
    /\ initPc = "start"
    /\ welcomes = EmptyBag
    /\ sends = [i \in 1..MaxTurns |-> IdleFlow]
    /\ login = [pc |-> "idle", n |-> 0]
    /\ timers = 0
    /\ histories = 0
    /\ unhandled = FALSE
    /\ ghRaised = FALSE
    /\ logoutCalled = FALSE
    /\ welcomeCalls = 0
    /\ handled = NoResponse
    /\ replayed = <<>>
    /\ sendCall = NotCalled

Init == PageInit /\ fn = NoCall


\* ------------------------------------------------- loadWelcomeMessage
Hdr(token, guest) == getHeaders(cfg.flask, authEnabled, token, guest)

WelcomeRequest(token, guest) ==
    Request("/api/chat", sessionId, <<>>, Hdr(token, guest), guest, token)

WelcomeFlow(src) == SetToBag({[src |-> src, sid |-> sessionId]})

\* the rejection of initialize() reaches the constructor's catch
InitFailed ==
    /\ messagesArea' = Rendered("init", <<"fallback_welcome">>)
    /\ initPc' = "done"

\* initialize() without its gate: what C9 rules out
welcomeAtLoadAlways(authEn, isAuth) == TRUE

\* the gate of initialize(): the welcome call is made at load when no login is
\* needed or the user is signed in
welcomeAtLoad(authEn, isAuth) == ~authEn \/ isAuth

\* initialize(), after initializeAuth() has returned, with the fields as given
\* (the continuation runs in the microtask checkpoint of initializeAuth's last
\* step: no event handler or callback runs between the two)
InitContinue(d, isAuth, token) ==
    IF welcomeAtLoad(authEnabled, isAuth)
    THEN IF Hdr(token, isGuest).raised
         THEN /\ InitFailed
              /\ ghRaised' = TRUE
              /\ dom' = d
              /\ UNCHANGED welcomes
              /\ fetched' = {}
         ELSE /\ welcomes' = welcomes (+) WelcomeFlow("init")
              /\ fetched' = {WelcomeRequest(token, isGuest)}
              /\ initPc' = "welcome"
              /\ dom' = d
              /\ UNCHANGED ghRaised
              /\ messagesArea' = NoRender
    ELSE /\ messagesArea' = Rendered("init", <<"login_prompt">>)
         /\ initPc' = "done"
         /\ dom' = d
         /\ UNCHANGED <<welcomes, ghRaised>>
         /\ fetched' = {}

\* ------------------------------------------ initialize / initializeAuth
\* constructor -> initialize() -> initializeAuth() up to its first await
Initialize ==
    /\ initPc = "start"
    /\ IF cfg.flask /\ cfg.flaskUser
       THEN /\ isAuthenticated' = TRUE
            /\ userId' = "flask-user"
            /\ InitContinue(setInputEnabled(dom, TRUE), TRUE, accessToken)
       ELSE IF ~authEnabled
       THEN /\ InitContinue([setInputEnabled(dom, TRUE) EXCEPT
                                !.authStatus = "Auth disabled (dev mode)",
                                !.loginButton = FALSE, !.logoutButton = FALSE],
                            isAuthenticated, accessToken)
            /\ UNCHANGED <<isAuthenticated, userId>>
       ELSE IF ~cfg.sdk
       THEN /\ InitFailed
            /\ dom' = IF cfg.authDom THEN [dom EXCEPT !.authStatus = "Auth unavailable"]
                      ELSE dom
            /\ UNCHANGED <<isAuthenticated, userId, welcomes, ghRaised>>
            /\ fetched' = {}
       ELSE /\ initPc' = "createClient"
            /\ UNCHANGED <<isAuthenticated, userId, welcomes, ghRaised,
                           dom>>
            /\ fetched' = {}
            /\ messagesArea' = NoRender
    /\ UNCHANGED <<cfg, fn, sessionId, currentState, progressMessageId,
                   auth0Client, accessToken, isGuest, authEnabled, progressEls, sends,
                   login, timers, histories>>
    /\ unhandled' = FALSE
    /\ handled' = NoResponse
    /\ replayed' = <<>>
    /\ sendCall' = NotCalled
    /\ logoutCalled' = FALSE
    /\ CountWelcome

\* await window.createAuth0Client(...), then the query-string test
InitCreateClient ==
    /\ initPc = "createClient"
    /\ \E ok \in BOOLEAN, hasCode \in BOOLEAN :
          IF ok
          THEN /\ auth0Client' = TRUE
               /\ initPc' = IF hasCode THEN "redirectCb" ELSE "isAuth"
               /\ messagesArea' = NoRender
          ELSE /\ InitFailed
               /\ UNCHANGED auth0Client
    /\ UNCHANGED <<cfg, fn, welcomeCalls, sessionId, currentState,
                   progressMessageId, accessToken, userId, isAuthenticated, isGuest,
                   authEnabled, dom, progressEls, welcomes, sends, login, timers,
                   histories, ghRaised>>
    /\ fetched' = {}
    /\ unhandled' = FALSE
    /\ handled' = NoResponse
    /\ replayed' = <<>>
    /\ sendCall' = NotCalled
    /\ logoutCalled' = FALSE

\* await this.auth0Client.handleRedirectCallback()
InitRedirectCallback ==
    /\ initPc = "redirectCb"
    /\ \E ok \in BOOLEAN :
          IF ok THEN initPc' = "isAuth" /\ messagesArea' = NoRender
          ELSE InitFailed
    /\ UNCHANGED <<cfg, fn, welcomeCalls, fieldVars, dom, progressEls,
                   welcomes, sends, login, timers, histories, ghRaised>>
    /\ fetched' = {}
    /\ unhandled' = FALSE
    /\ handled' = NoResponse
    /\ replayed' = <<>>
    /\ sendCall' = NotCalled
    /\ logoutCalled' = FALSE

\* this.isAuthenticated = await this.auth0Client.isAuthenticated()
InitIsAuthenticated ==
    /\ initPc = "isAuth"
    /\ \E r \in {"true", "false", "throw"} :
          CASE r = "true" ->
                 /\ isAuthenticated' = TRUE
                 /\ initPc' = "token"
                 /\ UNCHANGED <<dom, welcomes,
                                ghRaised>>
                 /\ messagesArea' = NoRender
                 /\ fetched' = {}
            [] r = "false" ->
                 /\ isAuthenticated' = FALSE
                 /\ IF cfg.authDom
                    THEN InitContinue(updateAuthUI(dom, authEnabled, FALSE, isGuest),
                                      FALSE, accessToken)
                    ELSE InitFailed /\ UNCHANGED <<dom, welcomes,
                                                   ghRaised>> /\ fetched' = {}
            [] r = "throw" ->
                 /\ InitFailed
                 /\ UNCHANGED <<isAuthenticated, dom, welcomes,
                                ghRaised>>
                 /\ fetched' = {}
    /\ UNCHANGED <<cfg, fn, sessionId, currentState, progressMessageId,
                   auth0Client, accessToken, userId, isGuest, authEnabled, progressEls,
                   sends, login, timers, histories>>
    /\ unhandled' = FALSE
    /\ handled' = NoResponse
    /\ replayed' = <<>>
    /\ sendCall' = NotCalled
    /\ logoutCalled' = FALSE
    /\ CountWelcome

\* this.accessToken = await this.auth0Client.getTokenSilently(); updateAuthUI()
InitToken ==
    /\ initPc = "token"
    /\ \/ \E t \in Tokens :
            /\ accessToken' = t
            /\ IF cfg.authDom
               THEN InitContinue(updateAuthUI(dom, authEnabled, isAuthenticated, isGuest),
                                 isAuthenticated, t)
               ELSE InitFailed /\ UNCHANGED <<dom, welcomes, ghRaised>> /\ fetched' = {}
       \/ /\ InitFailed
          /\ UNCHANGED <<accessToken, dom, welcomes, ghRaised>>
          /\ fetched' = {}
    /\ UNCHANGED <<cfg, fn, sessionId, currentState, progressMessageId,
                   auth0Client, userId, isAuthenticated, isGuest, authEnabled,
                   progressEls, sends, login, timers, histories>>
    /\ unhandled' = FALSE
    /\ handled' = NoResponse
    /\ replayed' = <<>>
    /\ sendCall' = NotCalled
    /\ logoutCalled' = FALSE
    /\ CountWelcome

\* the response of a welcome call arrives (or the 10 s abort fires)
WelcomeResponse ==
    \E w \in BagToSet(welcomes) : \E r \in ChatResponses(w.sid) :
        /\ welcomes' = welcomes (-) SetToBag({w})
        /\ IF r.kind = "json" /\ r.bot
           THEN /\ sessionId' = r.session_id
                /\ currentState' = r.state
                /\ messagesArea' = Rendered(w.src, <<"bot">>)
                /\ initPc' = IF w.src = "init" THEN "done" ELSE initPc
                /\ unhandled' = FALSE
           ELSE /\ IF w.src = "init"
                   THEN InitFailed /\ unhandled' = FALSE
                   ELSE unhandled' = TRUE /\ UNCHANGED initPc /\ messagesArea' = NoRender
                /\ UNCHANGED <<sessionId, currentState>>
        /\ UNCHANGED <<cfg, fn, welcomeCalls, progressMessageId,
                       auth0Client, accessToken, userId, isAuthenticated, isGuest,
                       authEnabled, dom, progressEls, sends, login, timers, histories,
                       ghRaised>>
        /\ fetched' = {}
        /\ handled' = Handled(r)
        /\ replayed' = <<>>
        /\ sendCall' = NotCalled
        /\ logoutCalled' = FALSE


\* --------------------------------------------------- progress indicator
\* addProgressMessage: a new element, keyed by the turn that created it,
\* showing 'Initializing research...' (status 0)
addProgressMessage(els, id) == [j \in DOMAIN els \cup {id} |-> IF j = id THEN 0 ELSE els[j]]

updateProgressMessage(els, id, status) ==
    IF id \in DOMAIN els THEN [els EXCEPT ![id] = status] ELSE els

removeProgressMessage(els, id) == [j \in DOMAIN els \ {id} |-> els[j]]

\* ---------------------------------------------------- handleSendMessage
ActivePcs == {"chat", "r300", "r400", "fetch", "p300", "json", "p400a", "p400b",
              "p500", "disp50", "disp300"}
ResearchPcs == ActivePcs \ {"chat"}

NextTurn == Cardinality({i \in 1..MaxTurns : sends[i].pc # "idle"}) + 1

\* the async flows of the page that have started and not finished
InFlight ==
    (IF initPc \in {"createClient", "redirectCb", "isAuth", "token"} THEN 1 ELSE 0)
    + (IF login.pc # "idle" THEN 1 ELSE 0)
    + timers + histories + BagCardinality(welcomes)
    + Cardinality({i \in 1..MaxTurns : sends[i].pc \in ActivePcs})

\* the user starts a new flow only while fewer than MaxInFlight are running
UserMayStart == InFlight < MaxInFlight

\* click on send / Enter with the input holding one of values, up to the await
\* in sendChatMessage; a blank value returns at once
HandleSendMessageOf(values) ==
    /\ dom.inputEnabled
    /\ \E value \in values :
         LET message == trim(value)
             i == NextTurn
             h == Hdr(accessToken, isGuest)
         IN /\ sendCall' = [called |-> TRUE, value |-> value]
            /\ IF message = <<>>
               THEN /\ messagesArea' = NoRender
                    /\ fetched' = {}
                    /\ UNCHANGED <<dom, sends, ghRaised>>
               ELSE /\ UserMayStart
                    /\ NextTurn <= MaxTurns
                    /\ IF h.raised
                       THEN /\ messagesArea' = RenderedTurn(i, <<"user", "chat_error">>)
                            /\ dom' = setInputEnabled(dom, TRUE)
                            /\ sends' = [sends EXCEPT ![i] = DoneFlow]
                            /\ ghRaised' = TRUE
                            /\ fetched' = {}
                       ELSE /\ messagesArea' = RenderedTurn(i, <<"user">>)
                            /\ dom' = setInputEnabled(dom, FALSE)
                            /\ fetched' = {Request("/api/chat", sessionId, message, h,
                                                   isGuest, accessToken)}
                            /\ sends' = [sends EXCEPT ![i].pc = "chat",
                                                      ![i].sid = sessionId]
                            /\ UNCHANGED ghRaised
    /\ UNCHANGED <<cfg, fn, welcomeCalls, fieldVars, progressEls, initPc,
                   welcomes, login, timers, histories>>
    /\ unhandled' = FALSE
    /\ handled' = NoResponse
    /\ replayed' = <<>>
    /\ logoutCalled' = FALSE

\* the user sends a message that is not blank
HandleSendMessage == HandleSendMessageOf(SomeText)

\* the user sends whatever the input holds
HandleSendMessageAny == HandleSendMessageOf(InputValues)

\* the chat response arrives: the rest of the try block, and the call of
\* startResearch up to its first await, or the catch, and the finally;
\* addBotMessage(undefined) appends an empty bubble and animateMessage, which
\* nobody awaits, rejects in formatMarkdown
ChatResponse(i) ==
    /\ sends[i].pc = "chat"
    /\ \E r \in ChatResponses(sends[i].sid) :
        /\ handled' = Handled(r)
        /\ replayed' = <<>>
        /\ sendCall' = NotCalled
        /\ logoutCalled' = FALSE
        /\ IF r.kind = "json"
          THEN /\ sessionId' = r.session_id
               /\ currentState' = r.state
               /\ messagesArea' = RenderedTurn(i, <<IF r.bot THEN "bot"
                                                   ELSE "bot_undefined">>)
               /\ unhandled' = ~r.bot
               /\ IF r.state = "ready_to_research"
                  THEN /\ progressMessageId' = i
                       /\ progressEls' = addProgressMessage(progressEls, i)
                       /\ dom' = setInputEnabled(dom, FALSE)
                       /\ sends' = [sends EXCEPT ![i].pc = "r300",
                                                 ![i].sid = r.session_id]
                  ELSE /\ dom' = setInputEnabled(dom, TRUE)
                       /\ sends' = [sends EXCEPT ![i] = DoneFlow]
                       /\ UNCHANGED <<progressMessageId, progressEls>>
          ELSE /\ messagesArea' = RenderedTurn(i, <<"chat_error">>)
               /\ unhandled' = FALSE
               /\ dom' = setInputEnabled(dom, TRUE)
               /\ sends' = [sends EXCEPT ![i] = DoneFlow]
               /\ UNCHANGED <<sessionId, currentState, progressMessageId, progressEls>>
    /\ fetched' = {}
    /\ UNCHANGED <<cfg, fn, welcomeCalls, auth0Client, accessToken,
                   userId, isAuthenticated, isGuest, authEnabled, initPc, welcomes,
                   login, timers, histories, ghRaised>>

\* -------------------------------------------------------- startResearch
\* the catch of startResearch without the two finally blocks: what C4 rules out
ResearchFailedNoFinally(i, els) ==
    /\ progressEls' = removeProgressMessage(els, progressMessageId)
    /\ messagesArea' = RenderedTurn(i, <<"research_failed">>)
    /\ dom' = dom
    /\ sends' = [sends EXCEPT ![i] = DoneFlow]

\* catch and finally of startResearch, then the finally of handleSendMessage
ResearchFailed(i, els) ==
    /\ progressEls' = removeProgressMessage(els, progressMessageId)
    /\ messagesArea' = RenderedTurn(i, <<"research_failed">>)
    /\ dom' = setInputEnabled(dom, TRUE)
    /\ sends' = [sends EXCEPT ![i] = DoneFlow]

\* a cosmetic delay ends: the next status text, and the next await
ResearchDelay(i) ==
    /\ sends[i].pc \in {"r300", "p400a", "p400b"}
    /\ progressEls' = updateProgressMessage(progressEls, progressMessageId,
                          CASE sends[i].pc = "r300" -> 1
                            [] sends[i].pc = "p400a" -> 5
                            [] sends[i].pc = "p400b" -> 6)
    /\ sends' = [sends EXCEPT ![i].pc = CASE sends[i].pc = "r300" -> "r400"
                                          [] sends[i].pc = "p400a" -> "p400b"
                                          [] sends[i].pc = "p400b" -> "p500"]
    /\ UNCHANGED <<cfg, fn, welcomeCalls, fieldVars, dom, initPc,
                   welcomes, login, timers, histories, ghRaised>>
    /\ Silent

\* the 400 ms delay ends: third status text, then fetch /api/research
ResearchFetch(i) ==
    /\ sends[i].pc = "r400"
    /\ LET h == Hdr(accessToken, isGuest)
           els == updateProgressMessage(progressEls, progressMessageId, 2)
       IN IF h.raised
          THEN /\ ResearchFailed(i, els)
               /\ ghRaised' = TRUE
               /\ fetched' = {}
          ELSE /\ progressEls' = els
               /\ fetched' = {Request("/api/research", sessionId, NoMessage, h, isGuest,
                                      accessToken)}
               /\ sends' = [sends EXCEPT ![i].pc = "fetch", ![i].sid = Null]
               /\ UNCHANGED <<dom, ghRaised>>
               /\ messagesArea' = NoRender
    /\ UNCHANGED <<cfg, fn, welcomeCalls, fieldVars, initPc, welcomes,
                   login, timers, histories>>
    /\ unhandled' = FALSE
    /\ handled' = NoResponse
    /\ replayed' = <<>>
    /\ sendCall' = NotCalled
    /\ logoutCalled' = FALSE

\* the research response arrives: !response.ok throws, otherwise fourth status
ResearchResponse(i) ==
    /\ sends[i].pc = "fetch"
    /\ \/ ResearchFailed(i, progressEls)
       \/ /\ progressEls' = updateProgressMessage(progressEls, progressMessageId, 3)
          /\ sends' = [sends EXCEPT ![i].pc = "p300"]
          /\ UNCHANGED dom
          /\ messagesArea' = NoRender
    /\ UNCHANGED <<cfg, fn, welcomeCalls, fieldVars, initPc, welcomes,
                   login, timers, histories, ghRaised>>
    /\ fetched' = {}
    /\ unhandled' = FALSE
    /\ handled' = NoResponse
    /\ replayed' = <<>>
    /\ sendCall' = NotCalled
    /\ logoutCalled' = FALSE

\* the 300 ms delay ends: response.json() is called and awaited
ResearchParse(i) ==
    /\ sends[i].pc = "p300"
    /\ sends' = [sends EXCEPT ![i].pc = "json"]
    /\ UNCHANGED <<cfg, fn, welcomeCalls, fieldVars, dom, progressEls,
                   initPc, welcomes, login, timers, histories, ghRaised>>
    /\ Silent

\* response.json() settles: a body that is not JSON throws, otherwise the
\* fifth status is shown (the body's shape is drawn where it is first read,
\* in ResearchDisplay)
ResearchJson(i) ==
    /\ sends[i].pc = "json"
    /\ \/ ResearchFailed(i, progressEls)
       \/ /\ progressEls' = updateProgressMessage(progressEls, progressMessageId, 4)
          /\ sends' = [sends EXCEPT ![i].pc = "p400a"]
          /\ UNCHANGED dom
          /\ messagesArea' = NoRender
    /\ UNCHANGED <<cfg, fn, welcomeCalls, fieldVars, initPc, welcomes,
                   login, timers, histories, ghRaised>>
    /\ fetched' = {}
    /\ unhandled' = FALSE
    /\ handled' = NoResponse
    /\ replayed' = <<>>
    /\ sendCall' = NotCalled
    /\ logoutCalled' = FALSE

\* the results block displayResults appends: innerHTML = html, which for a
\* body without html is the text 'undefined'
Results(body) == IF body = "html" THEN "results" ELSE "results_undefined"

\* the 500 ms delay ends: the indicator is removed and displayResults starts;
\* result.results.html throws when the body has no results; after displayResults
\* the completion message, and the two finally blocks
ResearchDisplayUpTo(i, maxn) ==
    /\ sends[i].pc = "p500"
    /\ \E body \in ResearchBodies :
         IF body = "noresults"
         THEN ResearchFailed(i, removeProgressMessage(progressEls, progressMessageId))
         ELSE /\ progressEls' = removeProgressMessage(progressEls, progressMessageId)
              /\ \E n \in 0..maxn :
                    /\ (body = "nohtml" => n = 0)
                    /\ IF n = 0
                       THEN /\ messagesArea' =
                                  RenderedTurn(i, <<Results(body), "analysis_complete">>)
                            /\ dom' = setInputEnabled(dom, TRUE)
                            /\ sends' = [sends EXCEPT ![i] = DoneFlow]
                       ELSE /\ messagesArea' = RenderedTurn(i, <<Results(body)>>)
                            /\ sends' = [sends EXCEPT ![i].pc = "disp50",
                                                      ![i].nsec = n, ![i].appended = 1,
                                                      ![i].content = <<1>>]
                            /\ UNCHANGED dom
    /\ UNCHANGED <<cfg, fn, welcomeCalls, fieldVars, initPc, welcomes,
                   login, timers, histories, ghRaised>>
    /\ fetched' = {}
    /\ unhandled' = FALSE
    /\ handled' = NoResponse
    /\ replayed' = <<>>
    /\ sendCall' = NotCalled
    /\ logoutCalled' = FALSE

\* the results carry up to MaxSections sections
ResearchDisplay(i) == ResearchDisplayUpTo(i, MaxSections)

\* the results carry up to MaxResultSections sections
ResearchDisplayLong(i) == ResearchDisplayUpTo(i, MaxResultSections)

\* displayResults: 50 ms after a section was appended it is revealed (opacity 1)
DisplayReveal(i) ==
    /\ sends[i].pc = "disp50"
    /\ sends' = [sends EXCEPT ![i].pc = "disp300",
                              ![i].revealed = @ \cup {sends[i].appended}]
    /\ UNCHANGED <<cfg, fn, welcomeCalls, fieldVars, dom, progressEls,
                   initPc, welcomes, login, timers, histories, ghRaised>>
    /\ Silent

\* displayResults with the 50 ms wait left out: what C20 rules out
DisplayNextNoReveal(i) ==
    /\ sends[i].pc \in {"disp50", "disp300"}
    /\ IF sends[i].appended < sends[i].nsec
       THEN /\ sends' = [sends EXCEPT ![i].pc = "disp50", ![i].appended = @ + 1,
                                      ![i].content = Append(@, sends[i].appended + 1)]
            /\ UNCHANGED dom
            /\ messagesArea' = NoRender
       ELSE /\ messagesArea' = RenderedTurn(i, <<"analysis_complete">>)
            /\ dom' = setInputEnabled(dom, TRUE)
            /\ sends' = [sends EXCEPT ![i] = DoneFlow]
    /\ UNCHANGED <<cfg, fn, welcomeCalls, fieldVars, progressEls, initPc,
                   welcomes, login, timers, histories, ghRaised>>
    /\ fetched' = {}
    /\ unhandled' = FALSE
    /\ handled' = NoResponse
    /\ replayed' = <<>>
    /\ sendCall' = NotCalled
    /\ logoutCalled' = FALSE

\* displayResults: 300 ms later the next section is appended, or the loop ends
\* and startResearch and handleSendMessage finish
DisplayNext(i) ==
    /\ sends[i].pc = "disp300"
    /\ IF sends[i].appended < sends[i].nsec
       THEN /\ sends' = [sends EXCEPT ![i].pc = "disp50", ![i].appended = @ + 1,
                                      ![i].content = Append(@, sends[i].appended + 1)]
            /\ UNCHANGED dom
            /\ messagesArea' = NoRender
       ELSE /\ messagesArea' = RenderedTurn(i, <<"analysis_complete">>)
            /\ dom' = setInputEnabled(dom, TRUE)
            /\ sends' = [sends EXCEPT ![i] = DoneFlow]
    /\ UNCHANGED <<cfg, fn, welcomeCalls, fieldVars, progressEls, initPc,
                   welcomes, login, timers, histories, ghRaised>>
    /\ fetched' = {}
    /\ unhandled' = FALSE
    /\ handled' = NoResponse
    /\ replayed' = <<>>
    /\ sendCall' = NotCalled
    /\ logoutCalled' = FALSE

\* ------------------------------------------------------------ login modal
\* click on the login button, once the constructor has run: login() -> openLoginModal()
OpenLoginModal ==
    /\ initPc # "start"
    /\ cfg.authDom
    /\ dom.loginButton
    /\ ~dom.loginModal
    /\ dom' = [dom EXCEPT !.loginModal = TRUE, !.loginStatus = ""]
    /\ UNCHANGED <<cfg, fn, welcomeCalls, fieldVars, progressEls, initPc,
                   welcomes, sends, login, timers, histories, ghRaised>>
    /\ Silent

\* click on the close button or outside the modal
CloseLoginModal ==
    /\ dom.loginModal
    /\ dom' = closeLoginModal(dom)
    /\ UNCHANGED <<cfg, fn, welcomeCalls, fieldVars, progressEls, initPc,
                   welcomes, sends, login, timers, histories, ghRaised>>
    /\ Silent

\* the catch of loginWithPopup if it refreshed the controls as the success
\* path does: what C23 rules out
LoginCaughtUpdatesUI(errClass) ==
    /\ dom' = [updateAuthUI(dom, authEnabled, isAuthenticated, isGuest)
                 EXCEPT !.loginStatus = loginErrorStatus(errClass),
                        !.popupLoginBtn = TRUE]
    /\ login' = [login EXCEPT !.pc = "idle"]

\* catch and finally of loginWithPopup
LoginCaught(errClass) ==
    /\ dom' = [dom EXCEPT !.loginStatus = loginErrorStatus(errClass),
                          !.popupLoginBtn = TRUE]
    /\ login' = [login EXCEPT !.pc = "idle"]

\* click on 'Continue with Auth0': loginWithPopup() up to its first await
LoginWithPopup ==
    /\ dom.loginModal
    /\ dom.popupLoginBtn
    /\ IF ~auth0Client
       THEN /\ dom.loginStatus # "Authentication not available"
            /\ dom' = [dom EXCEPT !.loginStatus = "Authentication not available"]
            /\ UNCHANGED login
       ELSE /\ login.n < MaxLogins
            /\ UserMayStart
            /\ dom' = [dom EXCEPT !.popupLoginBtn = FALSE,
                                  !.loginStatus = "Opening login window..."]
            /\ login' = [pc |-> "popup", n |-> login.n + 1]
    /\ UNCHANGED <<cfg, fn, welcomeCalls, fieldVars, progressEls, initPc,
                   welcomes, sends, timers, histories, ghRaised>>
    /\ Silent

\* await this.auth0Client.loginWithPopup(...) settles
PopupSettled ==
    /\ login.pc = "popup"
    /\ \/ login' = [login EXCEPT !.pc = "isAuth"] /\ UNCHANGED dom
       \/ \E c \in ThrownClasses : LoginCaught(c)
    /\ UNCHANGED <<cfg, fn, welcomeCalls, fieldVars, progressEls, initPc,
                   welcomes, sends, timers, histories, ghRaised>>
    /\ Silent

\* this.isAuthenticated = await this.auth0Client.isAuthenticated()
LoginIsAuthenticated ==
    /\ login.pc = "isAuth"
    /\ \/ /\ isAuthenticated' = TRUE
          /\ login' = [login EXCEPT !.pc = "token"]
          /\ UNCHANGED dom
       \/ /\ isAuthenticated' = FALSE
          /\ dom' = [dom EXCEPT !.popupLoginBtn = TRUE]
          /\ login' = [login EXCEPT !.pc = "idle"]
       \/ /\ \E c \in ThrownClasses : LoginCaught(c)
          /\ UNCHANGED isAuthenticated
    /\ UNCHANGED <<cfg, fn, welcomeCalls, sessionId, currentState,
                   progressMessageId, auth0Client, accessToken, userId, isGuest,
                   authEnabled, progressEls, initPc, welcomes, sends, timers,
                   histories, ghRaised>>
    /\ Silent

\* this.accessToken = await this.auth0Client.getTokenSilently()
LoginToken ==
    /\ login.pc = "token"
    /\ \/ \E t \in Tokens :
            /\ accessToken' = t
            /\ login' = [login EXCEPT !.pc = "user"]
            /\ UNCHANGED dom
       \/ /\ \E c \in ThrownClasses : LoginCaught(c)
          /\ UNCHANGED accessToken
    /\ UNCHANGED <<cfg, fn, welcomeCalls, sessionId, currentState,
                   progressMessageId, auth0Client, userId, isAuthenticated, isGuest,
                   authEnabled, progressEls, initPc, welcomes, sends, timers,
                   histories, ghRaised>>
    /\ Silent

\* const user = await this.auth0Client.getUser(); status, updateAuthUI, setTimeout
LoginUser ==
    /\ login.pc = "user"
    /\ \/ /\ userId' = "auth0-user"
          /\ dom' = [updateAuthUI([dom EXCEPT !.loginStatus = "Login successful!"],
                                  authEnabled, isAuthenticated, isGuest)
                       EXCEPT !.popupLoginBtn = TRUE]
          /\ timers' = timers + 1
          /\ login' = [login EXCEPT !.pc = "idle"]
       \/ /\ \E c \in ThrownClasses : LoginCaught(c)
          /\ UNCHANGED <<userId, timers>>
    /\ UNCHANGED <<cfg, fn, welcomeCalls, sessionId, currentState,
                   progressMessageId, auth0Client, accessToken, isAuthenticated,
                   isGuest, authEnabled, progressEls, initPc, welcomes, sends,
                   histories, ghRaised>>
    /\ Silent

\* loadChatHistory() up to its await: nothing without a signed-in user and a token
HistoryRequests(h) ==
    IF isAuthenticated /\ accessToken # Null /\ ~h.raised
    THEN {Request("/api/history", "n/a", NoMessage, h, isGuest, accessToken)}
    ELSE {}

\* the 800 ms callback: closeLoginModal(); loadWelcomeMessage(); loadChatHistory()
LoginTimeout ==
    /\ timers > 0
    /\ timers' = timers - 1
    /\ dom' = closeLoginModal(dom)
    /\ LET h == Hdr(accessToken, isGuest)
       IN /\ welcomes' = IF h.raised THEN welcomes
                         ELSE welcomes (+) WelcomeFlow("popup")
          /\ unhandled' = h.raised
          /\ ghRaised' = (ghRaised \/ h.raised)
          /\ fetched' = (IF h.raised THEN {} ELSE {WelcomeRequest(accessToken, isGuest)})
                           \cup HistoryRequests(h)
          /\ histories' = histories + Cardinality(HistoryRequests(h))
    /\ UNCHANGED <<cfg, fn, fieldVars, progressEls, initPc, sends, login>>
    /\ messagesArea' = NoRender
    /\ handled' = NoResponse
    /\ replayed' = <<>>
    /\ sendCall' = NotCalled
    /\ logoutCalled' = FALSE
    /\ CountWelcome

\* click on 'Continue as guest'
ContinueAsGuest ==
    /\ UserMayStart
    /\ dom.loginModal
    /\ isGuest' = TRUE
    /\ userId' = "guest"
    /\ dom' = closeLoginModal(updateAuthUI(dom, authEnabled, isAuthenticated, TRUE))
    /\ LET h == Hdr(accessToken, TRUE)
       IN IF h.raised
          THEN /\ unhandled' = TRUE
               /\ ghRaised' = TRUE
               /\ UNCHANGED welcomes
               /\ fetched' = {}
          ELSE /\ welcomes' = welcomes (+) WelcomeFlow("guest")
               /\ fetched' = {WelcomeRequest(accessToken, TRUE)}
               /\ UNCHANGED ghRaised
               /\ unhandled' = FALSE
    /\ UNCHANGED <<cfg, fn, sessionId, currentState, progressMessageId,
                   auth0Client, accessToken, isAuthenticated, authEnabled, progressEls,
                   initPc, sends, login, timers, histories>>
    /\ messagesArea' = NoRender
    /\ handled' = NoResponse
    /\ replayed' = <<>>
    /\ sendCall' = NotCalled
    /\ logoutCalled' = FALSE
    /\ CountWelcome

\* ----------------------------------------------------------------- logout
\* click on the logout button: logout() with an identity client calls its
\* logout(), which sends the browser to the identity provider; the fields are
\* not assigned.  Without a client logout() returns at once and changes nothing.
Logout ==
    /\ initPc # "start"
    /\ dom.logoutButton
    /\ auth0Client
    /\ logoutCalled' = TRUE
    /\ UNCHANGED <<cfg, fn, welcomeCalls, fieldVars, dom, progressEls, initPc,
                   welcomes, sends, login, timers, histories, ghRaised>>
    /\ messagesArea' = NoRender
    /\ fetched' = {}
    /\ unhandled' = FALSE
    /\ handled' = NoResponse
    /\ replayed' = <<>>
    /\ sendCall' = NotCalled

\* ------------------------------------------------------- loadChatHistory
\* the roles of history entries: the user's, the assistant's and any other
HistoryRoles == {"user", "assistant", "system"}

\* data.messages, non-empty, as the roles of its entries in the order returned
HistoryBodiesUpTo(maxn) == UNION {[1..n -> HistoryRoles] : n \in 1..maxn}

HistoryBodies == HistoryBodiesUpTo(MaxHistory)

\* the replay loop with every entry shown as a bot message: what C26 rules out
ReplayAllBot(msgs) == [k \in DOMAIN msgs |-> "history_bot"]

RECURSIVE Replay(_)
Replay(msgs) ==
    IF msgs = <<>> THEN <<>>
    ELSE <<IF Head(msgs).role = "user" THEN "history_user" ELSE "history_bot">>
         \o Replay(Tail(msgs))

\* the history response arrives; a failure, a non-2xx status and an empty or
\* missing list render nothing
HistoryResponseUpTo(maxn) ==
    /\ histories > 0
    /\ histories' = histories - 1
    /\ \/ messagesArea' = NoRender /\ replayed' = <<>>
       \/ \E roles \in HistoryBodiesUpTo(maxn) :
            /\ replayed' = roles
            /\ messagesArea' = Rendered("history",
                                  Replay([k \in DOMAIN roles |-> [role |-> roles[k]]]))
    /\ UNCHANGED <<cfg, fn, welcomeCalls, fieldVars, dom, progressEls,
                   initPc, welcomes, sends, login, timers, ghRaised>>
    /\ fetched' = {}
    /\ unhandled' = FALSE
    /\ handled' = NoResponse
    /\ sendCall' = NotCalled
    /\ logoutCalled' = FALSE

\* the history holds up to MaxHistory messages
HistoryResponse == HistoryResponseUpTo(MaxHistory)

\* the history holds up to MaxReplay messages
HistoryResponseLong == HistoryResponseUpTo(MaxReplay)

\* ------------------------------------------------------------------ Next
Next ==
    \/ Initialize
    \/ InitCreateClient
    \/ InitRedirectCallback
    \/ InitIsAuthenticated
    \/ InitToken
    \/ WelcomeResponse
    \/ HandleSendMessage
    \/ \E i \in 1..MaxTurns : ChatResponse(i)
    \/ \E i \in 1..MaxTurns : ResearchDelay(i)
    \/ \E i \in 1..MaxTurns : ResearchFetch(i)
    \/ \E i \in 1..MaxTurns : ResearchResponse(i)
    \/ \E i \in 1..MaxTurns : ResearchParse(i)
    \/ \E i \in 1..MaxTurns : ResearchJson(i)
    \/ \E i \in 1..MaxTurns : ResearchDisplay(i)
    \/ \E i \in 1..MaxTurns : DisplayReveal(i)
    \/ \E i \in 1..MaxTurns : DisplayNext(i)
    \/ OpenLoginModal
    \/ CloseLoginModal
    \/ LoginWithPopup
    \/ PopupSettled
    \/ LoginIsAuthenticated
    \/ LoginToken
    \/ LoginUser
    \/ LoginTimeout
    \/ ContinueAsGuest
    \/ Logout
    \/ HistoryResponse

Spec == Init /\ [][Next]_vars

\* every fetch settles (the browser answers or fails each request) and every
\* timer fires: the steps that continue a running handleSendMessage are taken
FlowStep(i) ==
    \/ ChatResponse(i)
    \/ ResearchDelay(i)
    \/ ResearchFetch(i)
    \/ ResearchResponse(i)
    \/ ResearchParse(i)
    \/ ResearchJson(i)
    \/ ResearchDisplay(i)
    \/ DisplayReveal(i)
    \/ DisplayNext(i)

FairSpec == Spec /\ \A i \in 1..MaxTurns : WF_vars(FlowStep(i))

\* the page with results of up to MaxResultSections sections, histories of
\* up to MaxReplay messages and any input value
LongNext ==
    \/ Initialize
    \/ InitCreateClient
    \/ InitRedirectCallback
    \/ InitIsAuthenticated
    \/ InitToken
    \/ WelcomeResponse
    \/ HandleSendMessageAny
    \/ \E i \in 1..MaxTurns : ChatResponse(i)
    \/ \E i \in 1..MaxTurns : ResearchDelay(i)
    \/ \E i \in 1..MaxTurns : ResearchFetch(i)
    \/ \E i \in 1..MaxTurns : ResearchResponse(i)
    \/ \E i \in 1..MaxTurns : ResearchParse(i)
    \/ \E i \in 1..MaxTurns : ResearchJson(i)
    \/ \E i \in 1..MaxTurns : ResearchDisplayLong(i)
    \/ \E i \in 1..MaxTurns : DisplayReveal(i)
    \/ \E i \in 1..MaxTurns : DisplayNext(i)
    \/ OpenLoginModal
    \/ CloseLoginModal
    \/ LoginWithPopup
    \/ PopupSettled
    \/ LoginIsAuthenticated
    \/ LoginToken
    \/ LoginUser
    \/ LoginTimeout
    \/ ContinueAsGuest
    \/ Logout
    \/ HistoryResponseLong

ResultsSpec == Init /\ [][LongNext]_vars

\* ------------------------------------------- functions run on their own
\* the catch of loginWithPopup run on each error
LoginErrorInit ==
    /\ PageInit
    /\ fn \in {[arg |-> e, result |-> "", returned |-> FALSE] : e \in LoginErrors}

ClassifyError ==
    /\ ~fn.returned
    /\ fn' = [fn EXCEPT !.result = loginErrorStatus(classify(fn.arg)),
                        !.returned = TRUE]
    /\ UNCHANGED <<cfg, fieldVars, dom, messagesArea, fetched, progressEls, initPc,
                   welcomes, sends, login, timers, histories, unhandled, ghRaised,
                   logoutCalled, welcomeCalls, handled, replayed,
                   sendCall>>

LoginErrorSpec == LoginErrorInit /\ [][ClassifyError]_vars

\* formatMarkdown run on each text: texts of up to MaxLines lines joined by
\* '\n', each line one of the shapes below with a word of its own, and the text
\* "**bold** text\n- item1\n- item2"
LineWords == <<"a", "b", "c", "d">>

LineShapes(j) ==
    {<<>>, <<LineWords[j]>>, <<"-", " ", LineWords[j]>>, <<"bullet", " ", LineWords[j]>>,
     <<"-", LineWords[j]>>, <<"-">>, <<"**", LineWords[j], "**">>}

RECURSIVE Join(_)
Join(lines) ==
    IF Len(lines) = 1 THEN lines[1]
    ELSE lines[1] \o <<"\n">> \o Join(Tail(lines))

ExampleText ==
    <<"**", "bold", "**", " ", "text", "\n", "-", " ", "item1", "\n", "-", " ", "item2">>

MarkdownTexts ==
    {ExampleText} \cup
    UNION {{Join(ls) : ls \in {l \in [1..n -> UNION {LineShapes(j) : j \in 1..n}] :
                                  \A j \in 1..n : l[j] \in LineShapes(j)}} :
           n \in 1..MaxLines}

MarkdownInit ==
    /\ PageInit
    /\ fn \in {[arg |-> t, result |-> <<>>, returned |-> FALSE] : t \in MarkdownTexts}

FormatMarkdown ==
    /\ ~fn.returned
    /\ fn' = [fn EXCEPT !.result = formatMarkdown(fn.arg), !.returned = TRUE]
    /\ UNCHANGED <<cfg, fieldVars, dom, messagesArea, fetched, progressEls, initPc,
                   welcomes, sends, login, timers, histories, unhandled, ghRaised,
                   logoutCalled, welcomeCalls, handled, replayed,
                   sendCall>>

MarkdownSpec == MarkdownInit /\ [][FormatMarkdown]_vars

\* ---------------------------------------- addBotMessage / animateMessage
\* element.innerHTML = html: the child nodes the HTML parser builds, each kept
\* as its markup (a text node is one character of text); the parser's state is
\* the stack of open elements and the child nodes built so far
Expand(html) ==
    IF html = <<>> THEN <<>>
    ELSE LET RECURSIVE Ex(_)
             Ex(t) == IF t = <<>> THEN <<>>
                      ELSE (IF Head(t) = "</p><p>" THEN <<"</p>", "<p>">> ELSE <<Head(t)>>)
                           \o Ex(Tail(t))
         IN Ex(html)

Open(stack, tag) == \E k \in DOMAIN stack : stack[k] = tag

\* the stack after the topmost tag element and all above it are popped
PopThrough(stack, tag) ==
    SubSeq(stack, 1, Max({k \in DOMAIN stack : stack[k] = tag}) - 1)

\* an li is open above the nearest enclosing list
OpenItem(stack) ==
    \E k \in DOMAIN stack : stack[k] = "li" /\ \A j \in (k + 1)..Len(stack) : stack[j] # "ul"

\* markup goes into the current node, or starts a child node of the container
Put(acc, toks, isElement) ==
    IF acc.stack = <<>>
    THEN [acc EXCEPT !.nodes = Append(@, [element |-> isElement, markup |-> toks])]
    ELSE [acc EXCEPT !.nodes[Len(acc.nodes)].markup = @ \o toks]

Push(acc, tag) == [acc EXCEPT !.stack = Append(@, tag)]

\* an end tag, written or implied, for an element that is open
Close(acc, tag, endTag) ==
    IF Open(acc.stack, tag)
    THEN [Put(acc, <<endTag>>, TRUE) EXCEPT !.stack = PopThrough(acc.stack, tag)]
    ELSE acc

CloseItem(acc) == IF OpenItem(acc.stack) THEN Close(acc, "li", "</li>") ELSE acc

\* one token in the 'in body' insertion mode
Insert(acc, t) ==
    CASE t = "<br>" -> Put(acc, <<t>>, TRUE)
      [] t = "<strong>" -> Push(Put(acc, <<t>>, TRUE), "strong")
      [] t = "</strong>" -> Close(acc, "strong", t)
      [] t = "<p>" -> LET a == Close(acc, "p", "</p>") IN Push(Put(a, <<t>>, TRUE), "p")
      [] t = "</p>" -> IF Open(acc.stack, "p") THEN Close(acc, "p", t)
                       ELSE Put(acc, <<"<p>", "</p>">>, TRUE)
      [] t = "<ul>" -> LET a == Close(acc, "p", "</p>") IN Push(Put(a, <<t>>, TRUE), "ul")
      [] t = "</ul>" -> Close(acc, "ul", t)
      [] t = "<li>" -> LET a == Close(CloseItem(acc), "p", "</p>")
                       IN Push(Put(a, <<t>>, TRUE), "li")
      [] t = "</li>" -> IF OpenItem(acc.stack) THEN Close(acc, "li", t) ELSE acc
      [] OTHER -> Put(acc, <<t>>, FALSE)

RECURSIVE Parse(_, _)
Parse(toks, acc) ==
    IF toks = <<>> THEN acc.nodes ELSE Parse(Tail(toks), Insert(acc, Head(toks)))

innerHTML(html) == Parse(Expand(html), [stack |-> <<>>, nodes |-> <<>>])

\* tempDiv.children: the element children, without the text nodes
children(nodes) == SelectSeq(nodes, LAMBDA n : n.element)

\* addBotMessage(message, false): the content shown at once
addBotMessageInstant(message) == innerHTML(formatMarkdown(message))

\* animateMessage(content, message): the content once every element is revealed
animateMessage(message) ==
    LET formattedMessage == formatMarkdown(message)
        elements == children(innerHTML(formattedMessage))
    IN IF Len(elements) = 0 THEN innerHTML(formattedMessage) ELSE elements

\* both rendering paths run on each text
RenderInit ==
    /\ PageInit
    /\ fn \in {[arg |-> t, result |-> <<>>, returned |-> FALSE] : t \in MarkdownTexts}

AddBotMessage ==
    /\ ~fn.returned
    /\ fn' = [fn EXCEPT !.result = [animated |-> animateMessage(fn.arg),
                                    instant |-> addBotMessageInstant(fn.arg)],
                        !.returned = TRUE]
    /\ UNCHANGED <<cfg, fieldVars, dom, messagesArea, fetched, progressEls, initPc,
                   welcomes, sends, login, timers, histories, unhandled, ghRaised,
                   logoutCalled, welcomeCalls, handled, replayed,
                   sendCall>>

RenderSpec == RenderInit /\ [][AddBotMessage]_vars

\* ================================================================ claims
TokenMode == authEnabled /\ ~cfg.flask

Active(i) == sends[i].pc \in ActivePcs

\* a chat, welcome or research request is out and its response not yet handled
Outstanding ==
    \/ welcomes # EmptyBag
    \/ \E i \in 1..MaxTurns : sends[i].pc \in {"chat", "fetch"}

SessionRequests(reqs) == {r \in reqs : r.ep \in {"/api/chat", "/api/research"}}

\* what C1 asks of every step
C1_SessionIdKeptStep ==
    sessionId \in SessionIds =>
       /\ \A r \in SessionRequests(fetched') : r.session_id = sessionId
       /\ (sessionId' \in SessionIds => sessionId' = sessionId)

\* C1: once the backend has returned a session identifier, every chat and
\* research request dispatched afterwards carries it, and the identifier the
\* client holds is never replaced by another one
C1_SessionIdKept == [][C1_SessionIdKeptStep]_vars

\* a step that handles a chat response (welcome or turn) whose state is
\* ready_to_research: both handlers store the state and render the bot message
HandledReady ==
    /\ messagesArea'.kinds # <<>>
    /\ messagesArea'.kinds[1] \in {"bot", "bot_undefined"}
    /\ currentState' = "ready_to_research"

StartsResearch(i) == sends[i].pc # "r300" /\ sends'[i].pc = "r300"

\* what C2 asks of every step
C2_ReadyTriggersResearchStep ==
    /\ HandledReady => \E i \in 1..MaxTurns : StartsResearch(i)
    /\ \A i \in 1..MaxTurns : StartsResearch(i) => HandledReady
    /\ \A i \in 1..MaxTurns :
          sends[i].pc = "r400" /\ sends'[i].pc # "r400" =>
              Cardinality({r \in fetched' : r.ep = "/api/research"}) = 1

\* C2: every chat response with state ready_to_research starts the research
\* operation in the step that handles it (no user action between), a response
\* with another state starts none, and a started operation sends one request
C2_ReadyTriggersResearch == [][C2_ReadyTriggersResearchStep]_vars

\* C3: while a chat, welcome or research request is outstanding the input
\* control is disabled
C3_InputDisabledWhileOutstanding == Outstanding => ~dom.inputEnabled

\* C4: every handleSendMessage that dispatched its chat request finishes, and
\* the step that finishes it leaves the input control enabled
C4_SendEndsEnabled ==
    /\ \A i \in 1..MaxTurns : Active(i) ~> sends[i].pc = "done"
    /\ [][\A i \in 1..MaxTurns :
             Active(i) /\ sends'[i].pc = "done" => dom'.inputEnabled]_vars

\* a turn whose research call failed has finished with the input enabled
C4_Witness ==
    \E i \in 1..MaxTurns :
        /\ sends[i].pc = "done"
        /\ messagesArea = RenderedTurn(i, <<"research_failed">>)
        /\ dom.inputEnabled

\* C5: two handleSendMessage flows are never active at the same time
C5_OneFlowAtATime == Cardinality({i \in 1..MaxTurns : Active(i)}) <= 1

\* what C6 asks of every step
C6_FailedTurnLeavesSessionStep ==
    \A i \in 1..MaxTurns :
       sends[i].pc = "chat" /\ sends'[i].pc # "chat" =>
          \/ messagesArea' = RenderedTurn(i, <<"bot">>)
          \/ /\ messagesArea' = RenderedTurn(i, <<"chat_error">>)
             /\ sessionId' = sessionId
             /\ currentState' = currentState

\* C6: a step that handles the response of a chat turn either renders the
\* bot's message of a complete body, or renders an error message and leaves
\* sessionId and currentState as they were
C6_FailedTurnLeavesSession == [][C6_FailedTurnLeavesSessionStep]_vars

\* what C7 asks of every step
C7_ResearchFailureRenderedStep ==
    \A i \in 1..MaxTurns :
       sends[i].pc \in ResearchPcs /\ messagesArea'.kinds # <<>> =>
          \/ messagesArea' \in {RenderedTurn(i, <<"results">>),
                                RenderedTurn(i, <<"results", "analysis_complete">>),
                                RenderedTurn(i, <<"analysis_complete">>)}
          \/ /\ messagesArea' = RenderedTurn(i, <<"research_failed">>)
             /\ progressMessageId \notin DOMAIN progressEls'
             /\ sessionId' = sessionId
          \/ messagesArea'.by # "turn" \/ messagesArea'.turn # i

\* C7: a step of a research operation that renders renders the results of a
\* body that has results.html, or the completion message after them, or else
\* the 'Research failed' message with the indicator of progressMessageId
\* removed and sessionId unchanged
C7_ResearchFailureRendered == [][C7_ResearchFailureRenderedStep]_vars

\* C8: while isGuest holds getHeaders yields no Authorization field, and no
\* request made as guest carries one
C8_GuestNoAuthorization ==
    /\ isGuest => Hdr(accessToken, isGuest).Authorization = Null
    /\ \A r \in fetched : r.guest => r.Authorization = Null

\* what C9 asks of every step
C9_NoRequestWithoutTokenStep ==
    /\ TokenMode => \A r \in fetched' : ~r.guest => r.token # Null
    /\ TokenMode /\ initPc = "isAuth" /\ initPc' = "done"
          /\ dom'.authStatus = "Signed out" =>
              /\ messagesArea' = Rendered("init", <<"login_prompt">>)
              /\ fetched' = {}

\* C9: in token mode no request is made for a user who is not a guest while
\* accessToken is null, and when initializeAuth has returned for a signed-out
\* user the page shows the login prompt and has made no request
C9_NoRequestWithoutToken == [][C9_NoRequestWithoutTokenStep]_vars

\* the signed-out page after load: the prompt shown, no token, input disabled
C9_Witness ==
    /\ TokenMode /\ ~isGuest /\ accessToken = Null
    /\ messagesArea = Rendered("init", <<"login_prompt">>)
    /\ ~dom.inputEnabled

\* C10: getHeaders raises exactly in token mode with no token and no guest,
\* and no call made by the page raises
C10_GetHeadersRaises ==
    /\ \A flask \in BOOLEAN, authEn \in BOOLEAN, guest \in BOOLEAN,
          token \in Tokens \cup {Null} :
          getHeaders(flask, authEn, token, guest).raised
             <=> (authEn /\ ~flask /\ token = Null /\ ~guest)
    /\ ~ghRaised

\* a guest without a token has made a request in token mode
C10_Witness ==
    /\ TokenMode /\ isGuest /\ accessToken = Null
    /\ fetched # {}

\* C11: the auth modes exclude each other: a guest is not signed in and holds
\* no access token, and authEnabled stays what the configuration made it
C11_ModesExclusive ==
    /\ ~(isGuest /\ isAuthenticated)
    /\ (isGuest => accessToken = Null)
    /\ authEnabled = hasAuthConfig(cfg)

\* what C12 asks of every step
C12_FailuresRenderedStep ==
    handled' = "failed" \/ (ghRaised' /\ ~ghRaised) =>
        /\ ~unhandled'
        /\ messagesArea'.kinds # <<>>

\* C12: a step in which a chat call failed (no response, a non-2xx status, a body
\* that is not JSON) or getHeaders threw renders a message and ends in no
\* rejection that reaches no handler
C12_FailuresRendered == [][C12_FailuresRenderedStep]_vars

\* the step ends initialize() without the backend's welcome and without the
\* login prompt: initialization failed
InitFails ==
    /\ initPc # "done"
    /\ initPc' = "done"
    /\ messagesArea' \notin {Rendered("init", <<"bot">>),
                             Rendered("init", <<"login_prompt">>)}

\* what C13 asks of every step
C13_InitFailureFallbackStep ==
    /\ InitFails =>
          /\ messagesArea' = Rendered("init", <<"fallback_welcome">>)
          /\ sessionId' = Null
          /\ currentState' = "initial"
    /\ "fallback_welcome" \in {messagesArea'.kinds[k] : k \in DOMAIN messagesArea'.kinds}
          => InitFails

\* C13: the step in which initialization fails renders the fallback welcome
\* message and nothing else, the message is rendered by no other step, and
\* sessionId is then null and currentState 'initial'
C13_InitFailureFallback == [][C13_InitFailureFallbackStep]_vars

\* a step that hands a welcome request (the empty message) to fetch
DispatchesWelcome == \E r \in fetched' : r.ep = "/api/chat" /\ r.message = <<>>

\* what C14 asks of every step
C14_WelcomeOnceStep ==
    DispatchesWelcome =>
        /\ welcomeCalls = 0
        /\ ~authEnabled \/ isAuthenticated' \/ isGuest'

\* C14: the welcome call is dispatched at most once in a page load, and then
\* only when no login is needed, the user is signed in, or is a guest
C14_WelcomeOnce == [][C14_WelcomeOnceStep]_vars

\* what C15 asks of every step
C15_LogoutClearsStep ==
    TokenMode /\ logoutCalled' =>
        /\ isAuthenticated' = FALSE
        /\ accessToken' = Null
        /\ userId' = Null

\* C15: in token mode the step that runs logout() leaves isAuthenticated false
\* and accessToken and userId null, besides calling the identity client's logout
C15_LogoutClears == [][C15_LogoutClearsStep]_vars

\* C16: a failed login shows 'Login cancelled' for a message that contains
\* 'Popup closed', else the popup-blocked text for one that contains 'popup',
\* else (any other message, or none) 'Login failed. Please try again.'; the
\* three texts differ
C16_LoginFailureClassified ==
    /\ fn.returned =>
          fn.result =
             IF fn.arg.hasMessage /\ includes(fn.arg.message, <<"Popup", "closed">>)
             THEN "Login cancelled"
             ELSE IF fn.arg.hasMessage /\ includes(fn.arg.message, <<"popup">>)
             THEN "Popup blocked. Please allow popups and try again."
             ELSE "Login failed. Please try again."
    /\ Cardinality({loginErrorStatus(c) : c \in ErrorClasses}) = 3

\* an error whose message has 'popup' before 'Popup closed' was classified as
\* cancelled
C16_Witness ==
    /\ fn.returned
    /\ fn.arg.hasMessage
    /\ includes(fn.arg.message, <<"popup">>)
    /\ fn.result = "Login cancelled"

\* what C17 asks of every step
C17_TokenSessionSendsBearerStep ==
    ~cfg.flask /\ accessToken' # Null =>
        \A r \in fetched' :
            /\ r.ep \in {"/api/chat", "/api/research", "/api/history"}
            /\ r.Authorization # Null
            /\ r.Authorization = Bearer(accessToken')

\* C17: outside Flask mode, a step that ends with an access token held hands
\* to fetch only requests to the three endpoints that carry
\* Authorization: Bearer <that token>
C17_TokenSessionSendsBearer == [][C17_TokenSessionSendsBearerStep]_vars

\* the history request after a popup login carries the token
C17_Witness ==
    /\ TokenMode
    /\ accessToken # Null
    /\ \E r \in fetched : r.ep = "/api/history" /\ r.token = accessToken
    /\ \E r \in fetched : r.ep = "/api/chat" /\ r.token = accessToken
    /\ \A r \in fetched : r.Authorization # Null

\* a step that handles a chat response with a complete body: it renders the
\* bot's message
RendersBotMessage == messagesArea'.kinds = <<"bot">>

\* what C18 asks of every step
C18_StateFollowsBackendStep ==
    /\ currentState' # currentState => RendersBotMessage
    /\ RendersBotMessage => currentState' = handled'

\* C18: currentState changes only in a step that handles a chat response
\* (welcome or turn) with a complete body, and is after such a step the state
\* field of that response; sending, a failed call (no response, a non-2xx
\* status, a malformed body) and every step of a research operation leave it
\* unchanged
C18_StateFollowsBackend == [][C18_StateFollowsBackendStep]_vars

\* the lines of a text
RECURSIVE Lines(_)
Lines(t) ==
    IF \A q \in DOMAIN t : t[q] # "\n" THEN <<t>>
    ELSE LET n == Min({q \in DOMAIN t : t[q] = "\n"})
         IN <<SubSeq(t, 1, n - 1)>> \o Lines(From(t, n + 1))

\* the words of a line that are no markup
WordsOf(line) ==
    {line[q] : q \in DOMAIN line} \ (Markers \cup Space \cup Tags \cup {"**"})

\* where a word stands in the output, and the list container and the list
\* item it stands in: the index of the opening tag, 0 when it stands in none
At(out, w) == CHOOSE p \in DOMAIN out : out[p] = w

Enclosing(out, p, open, close) ==
    LET U == {q \in 1..p : out[q] = open}
    IN IF U = {} \/ \E q \in Max(U)..p : out[q] = close THEN 0 ELSE Max(U)

\* the words of every run of consecutive lines of kind IsListLine stand in list
\* items of one and the same list container, and containers do not nest
RunsInOneContainer(text, out, IsListLine(_)) ==
    LET ls == Lines(text)
    IN /\ \A j \in DOMAIN ls, k \in DOMAIN ls :
             j <= k /\ (\A i \in j..k : IsListLine(ls[i])) =>
                \A v \in WordsOf(ls[j]), w \in WordsOf(ls[k]) :
                    /\ v \in {out[q] : q \in DOMAIN out}
                    /\ w \in {out[q] : q \in DOMAIN out}
                    /\ Enclosing(out, At(out, v), "<ul>", "</ul>") # 0
                    /\ Enclosing(out, At(out, v), "<ul>", "</ul>")
                          = Enclosing(out, At(out, w), "<ul>", "</ul>")
                    /\ Enclosing(out, At(out, v), "<li>", "</li>") # 0
       /\ \A p \in DOMAIN out :
             out[p] = "<ul>" /\ p > 1 => Enclosing(out, p - 1, "<ul>", "</ul>") = 0

StartsWithMarker(line) == line # <<>> /\ line[1] \in Markers

MarkerSpaceText(line) == Len(line) >= 3 /\ line[1] \in Markers /\ line[2] \in Space

\* the example: 'bold' in bold markup, one list container, both items in it
ExampleFormatted ==
    fn.arg = ExampleText =>
        /\ \E p \in DOMAIN fn.result :
              /\ p + 2 \in DOMAIN fn.result
              /\ SubSeq(fn.result, p, p + 2) = <<"<strong>", "bold", "</strong>">>
        /\ Cardinality({p \in DOMAIN fn.result : fn.result[p] = "<ul>"}) = 1
        /\ Enclosing(fn.result, At(fn.result, "bold"), "<ul>", "</ul>") = 0

Completes(i) ==
    /\ messagesArea'.by = "turn"
    /\ messagesArea'.turn = i
    /\ \E k \in DOMAIN messagesArea'.kinds : messagesArea'.kinds[k] = "analysis_complete"

\* C20: displayResults reveals the result sections one at a time in document
\* order: a section is appended only when every section appended before it has
\* been revealed, and it is the next one in order; the section revealed is the
\* one appended last; displayResults completes only after the last section has
\* been appended and revealed; results without sections are shown whole in the
\* step that starts displayResults, which also completes it.
C20_SectionsRevealedInOrderStep ==
    \A i \in 1..MaxTurns :
        LET s == sends[i]
            t == sends'[i]
        IN /\ Len(t.content) > Len(s.content) =>
                /\ t.content = Append(s.content, Len(s.content) + 1)
                /\ s.revealed = 1..Len(s.content)
                /\ Len(t.content) <= t.nsec
           /\ t.revealed # s.revealed /\ t.pc # "done" =>
                /\ t.revealed = s.revealed \cup {Len(s.content)}
                /\ t.content = s.content
           /\ s.pc \in {"disp50", "disp300"} /\ t.pc = "done" =>
                /\ Completes(i)
                /\ Len(s.content) = s.nsec
                /\ s.revealed = 1..s.nsec
           /\ s.pc = "p500" /\ Completes(i) =>
                /\ t.pc = "done"
                /\ messagesArea'.kinds \in {<<"results", "analysis_complete">>,
                                            <<"results_undefined", "analysis_complete">>}
           /\ s.pc = "p500" /\ t.pc = "disp50" =>
                /\ s.content = <<>>
                /\ t.nsec >= 1
                /\ messagesArea'.kinds = <<"results">>

C20_SectionsRevealedInOrder == [][C20_SectionsRevealedInOrderStep]_vars

\* results of at least two sections are all appended and revealed
C20_Witness ==
    \E i \in 1..MaxTurns :
        /\ sends[i].pc = "disp300"
        /\ sends[i].nsec >= 2
        /\ sends[i].content = [k \in 1..sends[i].nsec |-> k]
        /\ sends[i].revealed = 1..sends[i].nsec

\* ------------------------------------------------------------ the modes
\* auth disabled: no Flask mode and not all of domain, clientId and audience
Disabled == ~cfg.flask /\ ~cfg.auth0

\* C21: with auth disabled, initialization enables the input and issues the
\* welcome call without any login, and in every state getHeaders does not raise
\* and yields no Authorization field, nor does any request carry one.
C21_DisabledOpenStep ==
    Disabled =>
        /\ initPc = "start" /\ initPc' # "start" =>
              /\ dom'.inputEnabled
              /\ login'.n = 0 /\ ~isGuest' /\ ~isAuthenticated'
              /\ initPc' = "welcome"
              /\ \E r \in fetched' : r.ep = "/api/chat" /\ r.message = <<>>
        /\ ~getHeaders(cfg.flask, authEnabled, accessToken, isGuest).raised
        /\ getHeaders(cfg.flask, authEnabled, accessToken, isGuest).Authorization = Null
        /\ ~getHeaders(cfg.flask, authEnabled', accessToken', isGuest').raised
        /\ getHeaders(cfg.flask, authEnabled', accessToken', isGuest').Authorization = Null
        /\ ~ghRaised'
        /\ \A r \in fetched' : r.Authorization = Null

C21_DisabledOpen == [][C21_DisabledOpenStep]_vars

\* with auth disabled a turn has been sent after the welcome call was answered
C21_Witness ==
    /\ Disabled
    /\ initPc = "done"
    /\ \E r \in fetched : r.ep = "/api/chat" /\ r.message # <<>>

\* C22: in Flask mode the input is enabled at load exactly when the embedded
\* user is present, and no request carries an Authorization header; in Flask
\* mode without embedded user the input stays disabled and no backend request
\* is issued.
C22_FlaskSessionStep ==
    cfg.flask =>
        /\ initPc = "start" /\ initPc' # "start" => (dom'.inputEnabled <=> cfg.flaskUser)
        /\ \A r \in fetched' : r.Authorization = Null
        /\ ~cfg.flaskUser => ~dom'.inputEnabled /\ fetched' = {}

C22_FlaskSession == [][C22_FlaskSessionStep]_vars

\* C23: in token mode the input is enabled only when a token is held or guest
\* mode was chosen, also after a login in which isAuthenticated succeeded and
\* the token retrieval failed.
C23_InputNeedsTokenOrGuest ==
    TokenMode /\ dom.inputEnabled => accessToken # Null \/ isGuest

\* a popup login ended in its catch after isAuthenticated had answered true
C23_Witness ==
    /\ TokenMode
    /\ login.n >= 1 /\ login.pc = "idle"
    /\ dom.loginStatus \in {loginErrorStatus(c) : c \in ErrorClasses}
    /\ isAuthenticated /\ accessToken = Null /\ ~isGuest
    /\ dom.authStatus = "Signed out"
    /\ ~dom.inputEnabled

\* ------------------------------------------------- the progress indicator
\* the status a research operation has reached at each of its awaits, as the
\* index of its text: 0 'Initializing research...', 1 'Pulling market data...',
\* 2 'Analyzing sector performance...', 3 'Evaluating risk profiles...',
\* 4 'Analyzing market news & trends...', 5 'Finding stock opportunities...',
\* 6 'Generating AI insights...'
StatusAt(pc) ==
    CASE pc = "r300" -> 0
      [] pc = "r400" -> 1
      [] pc = "fetch" -> 2
      [] pc \in {"p300", "json"} -> 3
      [] pc = "p400a" -> 4
      [] pc = "p400b" -> 5
      [] pc = "p500" -> 6

\* the indicator of every research operation shows the status of its position
ShowsItsStatus(fs, els) ==
    \A i \in 1..MaxTurns :
        fs[i].pc \in ResearchPcs \ {"disp50", "disp300"} =>
            i \in DOMAIN els /\ els[i] = StatusAt(fs[i].pc)

\* C24: the indicator of a research operation shows the seven statuses in
\* their fixed order, none skipped or repeated: the first three up to the
\* dispatch of /api/research, the other four after a successful response; when
\* the request fails (network error or non-2xx status) its indicator has shown
\* none of the last four.
C24_StatusOrderStep ==
    /\ ShowsItsStatus(sends, progressEls)
    /\ ShowsItsStatus(sends', progressEls')
    /\ \A i \in 1..MaxTurns :
          sends[i].pc = "fetch" /\ sends'[i].pc = "done" /\ i \in DOMAIN progressEls =>
              progressEls[i] <= 2

C24_StatusOrder == [][C24_StatusOrderStep]_vars

\* a research operation is in progress: from addProgressMessage to the finally
\* of startResearch
Researching(fs) == \E i \in 1..MaxTurns : fs[i].pc \in ResearchPcs

\* C25: a progress indicator exists only while a research operation is in
\* progress: startResearch creates one when it begins, and whenever no research
\* operation is in progress, after success or failure, none is displayed.
C25_IndicatorOnlyWhileResearchingStep ==
    /\ \A i \in 1..MaxTurns :
          sends[i].pc = "chat" /\ sends'[i].pc = "r300" =>
              i \in DOMAIN progressEls' /\ i \notin DOMAIN progressEls
    /\ ~Researching(sends) => progressEls = <<>>
    /\ ~Researching(sends') => progressEls' = <<>>

C25_IndicatorOnlyWhileResearching == [][C25_IndicatorOnlyWhileResearchingStep]_vars

\* ---------------------------------------------------------- the history
\* C26: /api/history is fetched only when isAuthenticated is true and an access
\* token is held; the messages of its response are replayed in the order
\* returned, a user entry as a user message and any other as a bot message shown
\* at once without animation; a failed or non-2xx history fetch renders nothing
\* and changes neither sessionId nor currentState.
C26_HistoryReplayStep ==
    /\ \A r \in fetched' :
          r.ep = "/api/history" => isAuthenticated /\ accessToken # Null
                                   /\ isAuthenticated' /\ accessToken' # Null
    /\ histories' < histories =>
          IF replayed' = <<>>
          THEN /\ messagesArea' = NoRender
               /\ sessionId' = sessionId
               /\ currentState' = currentState
          ELSE /\ messagesArea'.by = "history"
               /\ messagesArea'.kinds =
                      [k \in DOMAIN replayed' |-> IF replayed'[k] = "user"
                                                  THEN "history_user"
                                                  ELSE "history_bot"]

C26_HistoryReplay == [][C26_HistoryReplayStep]_vars

\* a history of a bot message followed by a user message has been replayed
C26_Witness ==
    /\ Len(replayed) = 2
    /\ replayed[1] # "user" /\ replayed[2] = "user"
    /\ messagesArea.kinds = <<"history_bot", "history_user">>

\* ------------------------------------------------- the research request
\* C27: the /api/research request that a chat response with state
\* 'ready_to_research' triggers carries the session_id of that chat response,
\* whatever other responses are handled during the delays before it.
C27_ResearchCarriesTurnSessionStep ==
    \A i \in 1..MaxTurns :
        sends[i].pc = "r400" /\ sends'[i].pc = "fetch" =>
            \A r \in fetched' : r.ep = "/api/research" => r.session_id = sends[i].sid

C27_ResearchCarriesTurnSession == [][C27_ResearchCarriesTurnSessionStep]_vars

\* ------------------------------------------------------ the two renderings
\* C28: for every bot message the content shown by the animated path, once
\* all elements are revealed, is the content the instant path shows for the
\* same text: nothing of the formatted message is lost or reordered.
C28_AnimatedEqualsInstant ==
    fn.returned => fn.result.animated = fn.result.instant

\* ----------------------------------------------------------- blank input
\* a text that is empty or holds white space only
Blank(value) == \A k \in DOMAIN value : value[k] \in Space

\* C29: handleSendMessage called with an empty or white-space-only input does
\* nothing: no request is dispatched, no message is rendered, no flow starts,
\* the input stays as enabled as it was, sessionId and currentState are
\* unchanged; hence the chat request of a send never carries an empty message.
C29_BlankSendIsNoOpStep ==
    sendCall'.called =>
        /\ Blank(sendCall'.value) =>
              /\ fetched' = {}
              /\ messagesArea' = NoRender
              /\ sends' = sends
              /\ dom' = dom
              /\ sessionId' = sessionId
              /\ currentState' = currentState
        /\ \A r \in fetched' : r.ep = "/api/chat" => ~Blank(r.message)

C29_BlankSendIsNoOp == [][C29_BlankSendIsNoOpStep]_vars

\* handleSendMessage has just returned on an input of white space
C29_Witness ==
    /\ sendCall.called
    /\ sendCall.value = <<" ", " ">>
    /\ dom.inputEnabled
    /\ fetched = {}

\* ------------------------------------------------------- the popup login
\* loginWithPopup returns in this step
LoginEnds == login.pc # "idle" /\ login'.pc = "idle"

\* the user was neither signed in nor a guest when this login began: where
\* the login has assigned isAuthenticated or accessToken, the field is its own
SignedOutBefore ==
    /\ ~isGuest
    /\ ~dom.inputEnabled
    /\ initPc = "done"
    /\ login.pc \in {"popup", "isAuth"} => ~isAuthenticated
    /\ login.pc # "user" => accessToken = Null

\* C30: a popup login that fails or is cancelled, for a user who is neither
\* signed in nor a guest, leaves isAuthenticated false, accessToken null,
\* sessionId and currentState unchanged and the input disabled, and dispatches
\* no request; after every attempt that reached the identity client the popup
\* login button is enabled again.
C30_FailedLoginChangesNothingStep ==
    /\ LoginEnds /\ dom'.loginStatus # "Login successful!" /\ SignedOutBefore =>
            /\ ~isAuthenticated'
            /\ accessToken' = Null
            /\ sessionId' = sessionId
            /\ currentState' = currentState
            /\ ~dom'.inputEnabled
            /\ fetched' = {}
    /\ LoginEnds => dom'.popupLoginBtn

C30_FailedLoginChangesNothing == [][C30_FailedLoginChangesNothingStep]_vars

====
